---- MODULE Spec2Model ----
(***************************************************************************)
(* A model of sentry.integrations.jira.integration.JiraIntegration:        *)
(* the organization configuration surface (update_organization_config,     *)
(* get_config_data), the create-issue field translation                    *)
(* (build_dynamic_field, create_issue), the outbound sync operations       *)
(* (sync_assignee_outbound, sync_status_outbound) and the inbound          *)
(* predicates (should_resolve, should_unresolve).                          *)
(*                                                                         *)
(* Python values of mixed type are tagged records:                         *)
(*   [t |-> "bool", b |-> ...]   a boolean                                 *)
(*   [t |-> "map",  m |-> ...]   a per-project status mapping (a dict)     *)
(* Python dicts are functions whose DOMAIN is the set of keys present.     *)
(***************************************************************************)
EXTENDS Bags, FiniteSets, Integers, Sequences, TLC

VARIABLES
    rows,           \* bag of IntegrationExternalProject rows (the table)
    config,         \* self.org_integration.config, the in-memory dict
    stored_config,  \* the config column of the OrganizationIntegration row
    arg,            \* the arguments of the call under test, where drawn up front
    ret             \* the last call: its name and its outcome

vars == <<rows, config, stored_config, arg, ret>>

(***************************************************************************)
(* Bounds                                                                  *)
(***************************************************************************)
NumProjects == 2
NumStatuses == 2

(***************************************************************************)
(* Identifiers                                                             *)
(***************************************************************************)
\* external (Jira) project ids
ProjectIds == 1..NumProjects
\* Jira status ids, strings such as "10001"
StatusIds == {ToString(10000 + i) : i \in 1..NumStatuses}
\* what the settings form posts for a status: one of two ids, or nothing
PostedStatus == {ToString(10001), ToString(10002), ""}

\* the organization integration this instance serves, and another one
OrgIntegrationId == 1
OtherOrgIntegrationId == 2

\* Python truthiness of a string
Truthy(s) == s # ""

(***************************************************************************)
(* Dicts                                                                   *)
(***************************************************************************)
EmptyDict == << >>

\* all dicts with keys in K and values in V
Dicts(K, V) == UNION {[D -> V] : D \in SUBSET K}

\* dict.update: the entries of d2 replace or extend those of d1
DictUpdate(d1, d2) == d2 @@ d1

\* dict.pop / del: the dict without key k
DictWithout(d, k) == [x \in DOMAIN d \ {k} |-> d[x]]

BoolV(b) == [t |-> "bool", b |-> b]
MapV(m) == [t |-> "map", m |-> m]

\* a per-project mapping as posted by the settings form
StatusPairs == [on_resolve : PostedStatus, on_unresolve : PostedStatus]
ProjectMappings == Dicts(ProjectIds, StatusPairs)

\* the data argument of update_organization_config
UpdateData ==
    {forward @@ comments :
        forward \in {EmptyDict} \cup
                    {[k \in {"sync_status_forward"} |-> MapV(m)] :
                         m \in ProjectMappings},
        comments \in {EmptyDict, [k \in {"sync_comments"} |-> BoolV(TRUE)]}}

(***************************************************************************)
(* IntegrationExternalProject                                              *)
(***************************************************************************)
Row(oi, ext, res, unres) ==
    [organization_integration_id |-> oi, external_id |-> ext,
     resolved_status |-> res, unresolved_status |-> unres]

\* objects.filter(organization_integration_id=oi): the matching rows
FilterRows(tbl, oi) ==
    {r \in BagToSet(tbl) : r.organization_integration_id = oi}

\* as DeleteRows, but nothing is deleted
DeleteRows_Nothing(tbl, oi) == tbl

\* objects.filter(organization_integration_id=oi).delete()
DeleteRows(tbl, oi) ==
    LET keep == BagToSet(tbl) \ FilterRows(tbl, oi)
    IN  [r \in keep |-> tbl[r]]

\* one objects.create(...) per item of project_mappings
RECURSIVE CreateRows(_, _, _)
CreateRows(tbl, oi, pm) ==
    IF DOMAIN pm = {} THEN tbl
    ELSE LET p == CHOOSE q \in DOMAIN pm : TRUE
             r == Row(oi, p, pm[p].on_resolve, pm[p].on_unresolve)
         IN  CreateRows(tbl (+) SetToBag({r}), oi, DictWithout(pm, p))

\* as AnyMissingStatus, but on_unresolve is not looked at
AnyMissingStatus_ResolveOnly(pm) ==
    \E p \in DOMAIN pm : ~Truthy(pm[p].on_resolve)

\* any(not mapping['on_unresolve'] or not mapping['on_resolve'] ...)
AnyMissingStatus(pm) ==
    \E p \in DOMAIN pm : ~Truthy(pm[p].on_unresolve) \/ ~Truthy(pm[p].on_resolve)

\* bool(project_mappings)
BoolOfDict(d) == DOMAIN d # {}

(***************************************************************************)
(* update_organization_config(data)                                        *)
(***************************************************************************)
\* the rows after the delete and the creates
ReplaceRows(tbl, oi, pm) == CreateRows(DeleteRows(tbl, oi), oi, pm)

\* data after the pop and the data['sync_status_forward'] = bool(...) store
DataToMerge(data) ==
    IF "sync_status_forward" \in DOMAIN data
    THEN DictUpdate(data, [k \in {"sync_status_forward"} |->
                               BoolV(BoolOfDict(data["sync_status_forward"].m))])
    ELSE data

\* as update_organization_config, but the other keys of a rejected call
\* are merged and saved before the error is raised
update_organization_config_MergeFirst(data) ==
    IF /\ "sync_status_forward" \in DOMAIN data
       /\ AnyMissingStatus(data["sync_status_forward"].m)
    THEN /\ ret' = [op |-> "update_organization_config",
                    keys |-> DOMAIN data, raised |-> "IntegrationError"]
         /\ config' = DictUpdate(config, DictWithout(data, "sync_status_forward"))
         /\ stored_config' = config'
         /\ UNCHANGED rows
    ELSE /\ rows' = IF "sync_status_forward" \in DOMAIN data
                    THEN ReplaceRows(rows, OrgIntegrationId,
                                     data["sync_status_forward"].m)
                    ELSE rows
         /\ config' = DictUpdate(config, DataToMerge(data))
         /\ stored_config' = config'
         /\ ret' = [op |-> "update_organization_config", data |-> data,
                    raised |-> "none"]

update_organization_config(data) ==
    IF /\ "sync_status_forward" \in DOMAIN data
       /\ AnyMissingStatus(data["sync_status_forward"].m)
    THEN \* raise IntegrationError before anything is written
         /\ ret' = [op |-> "update_organization_config",
                    keys |-> DOMAIN data, raised |-> "IntegrationError"]
         /\ UNCHANGED <<rows, config, stored_config>>
    ELSE /\ rows' = IF "sync_status_forward" \in DOMAIN data
                    THEN ReplaceRows(rows, OrgIntegrationId,
                                     data["sync_status_forward"].m)
                    ELSE rows
         /\ config' = DictUpdate(config, DataToMerge(data))
         /\ stored_config' = config'
         /\ ret' = [op |-> "update_organization_config", data |-> data,
                    raised |-> "none"]

UpdateOrganizationConfig ==
    /\ \E data \in UpdateData : update_organization_config(data)
    /\ UNCHANGED arg

(***************************************************************************)
(* get_config_data()                                                       *)
(***************************************************************************)
\* as ForwardFromRows, but the two statuses change places
RECURSIVE ForwardFromRows_Swapped(_, _)
ForwardFromRows_Swapped(rs, acc) ==
    IF rs = {} THEN acc
    ELSE LET pm == CHOOSE r \in rs : TRUE
         IN  ForwardFromRows_Swapped(rs \ {pm},
                 DictUpdate(acc, [k \in {pm.external_id} |->
                     [on_unresolve |-> pm.resolved_status,
                      on_resolve |-> pm.unresolved_status]]))

\* the sync_status_forward dict built from the rows, the later row winning
RECURSIVE ForwardFromRows(_, _)
ForwardFromRows(rs, acc) ==
    IF rs = {} THEN acc
    ELSE LET pm == CHOOSE r \in rs : TRUE
         IN  ForwardFromRows(rs \ {pm},
                 DictUpdate(acc, [k \in {pm.external_id} |->
                     [on_unresolve |-> pm.unresolved_status,
                      on_resolve |-> pm.resolved_status]]))

get_config_data ==
    LET sync_status_forward == ForwardFromRows(FilterRows(rows, OrgIntegrationId), EmptyDict)
    IN  /\ config' = DictUpdate(config, [k \in {"sync_status_forward"} |->
                                             MapV(sync_status_forward)])
        /\ ret' = [op |-> "get_config_data", value |-> config']
        /\ UNCHANGED <<rows, stored_config>>

GetConfigData == get_config_data /\ UNCHANGED arg

(***************************************************************************)
(* The configuration surface                                               *)
(***************************************************************************)
\* rows another organization integration may hold
OtherRows ==
    {EmptyBag,
     SetToBag({Row(OtherOrgIntegrationId, 1, ToString(10001), ToString(10002))})}

Idle == [op |-> "none"]

InitConfig ==
    /\ rows \in OtherRows
    /\ config = EmptyDict
    /\ stored_config = EmptyDict
    /\ arg = Idle
    /\ ret = Idle

NextConfig == UpdateOrganizationConfig \/ GetConfigData

SpecConfig == InitConfig /\ [][NextConfig]_vars

(***************************************************************************)
(* One update_organization_config call on each possible data argument      *)
(***************************************************************************)
InitValidate ==
    /\ rows \in OtherRows
    /\ config = EmptyDict
    /\ stored_config = EmptyDict
    /\ arg \in UpdateData
    /\ ret = Idle

UpdateWithArg ==
    /\ ret = Idle
    /\ update_organization_config(arg)
    /\ UNCHANGED arg

NextValidate == UpdateWithArg

SpecValidate == InitValidate /\ [][NextValidate]_vars

(***************************************************************************)
(* Remote calls                                                            *)
(***************************************************************************)
\* the errors a client call can raise
ApiErrors == {"ApiError", "ApiUnauthorized"}

\* the answer of one client call: a value, or an error raised
Ok(v) == [raised |-> "none", value |-> v]
Fail(e) == [raised |-> e]
Answers(V) == {Ok(v) : v \in V} \cup {Fail(e) : e \in ApiErrors}

\* Python None, and a string that may stand where None may
NoneV == [t |-> "none"]
StrV(x) == [t |-> "str", s |-> x]

\* what an operation did: the client calls it made in order, the log events
\* it wrote, and the exception that left it ("none" when it returned)
Outcome(op, calls, logged, raised) ==
    [op |-> op, calls |-> calls, logged |-> logged, raised |-> raised]

(***************************************************************************)
(* sync_status_outbound(external_issue, is_resolved, project_id)           *)
(***************************************************************************)
MaxTransitions == 2

\* the OrganizationIntegration table
OrganizationIntegrations ==
    {[id |-> OrgIntegrationId, organization_id |-> 1, integration_id |-> 1],
     [id |-> OtherOrgIntegrationId, organization_id |-> 2, integration_id |-> 1]}

\* the external issue linked by this instance's organization
ExternalIssue == [key |-> "APP-1", organization_id |-> 1, integration_id |-> 1]

\* jira_issue['fields']: the project and the status of the issue
JiraIssues == [project : ProjectIds, status : StatusIds]

\* the transitions Jira offers for the issue: t['id'] and t['to']['id']
Transition(i, to) == [id |-> i, to |-> to]
TransitionLists ==
    UNION {{[i \in 1..n |-> Transition(i, f[i])] : f \in [1..n -> StatusIds]} :
               n \in 0..MaxTransitions}

\* OrganizationIntegration.objects.filter(organization_id=, integration_id=)
FilterOrganizationIntegrations(external_issue) ==
    {oi.id : oi \in {o \in OrganizationIntegrations :
                        /\ o.organization_id = external_issue.organization_id
                        /\ o.integration_id = external_issue.integration_id}}

\* as GetExternalProject, but a row of any organization integration matches
GetExternalProject_AnyOrganization(tbl, external_issue, jira_project) ==
    {r \in BagToSet(tbl) : r.external_id = jira_project}

\* IntegrationExternalProject.objects.get(external_id=, ..._id__in=): the
\* matching rows; none is DoesNotExist
GetExternalProject(tbl, external_issue, jira_project) ==
    {r \in BagToSet(tbl) :
        /\ r.external_id = jira_project
        /\ r.organization_integration_id \in
               FilterOrganizationIntegrations(external_issue)}

\* as MatchingTransitions, but every offered transition matches
MatchingTransitions_Any(transitions, jira_status) == transitions

\* [t for t in transitions if t['to']['id'] == jira_status]
MatchingTransitions(transitions, jira_status) ==
    SelectSeq(transitions, LAMBDA t : t.to = jira_status)

sync_status_outbound(tbl, external_issue, is_resolved, remote) ==
    LET op == "sync_status_outbound"
        c1 == <<[fn |-> "get_issue", key |-> external_issue.key]>>
    IN
    IF remote.get_issue.raised # "none"
    THEN Outcome(op, c1, <<>>, remote.get_issue.raised)
    ELSE
    LET jira_issue == remote.get_issue.value
        found == GetExternalProject(tbl, external_issue, jira_issue.project)
    IN
    IF found = {} THEN Outcome(op, c1, <<>>, "none")
    ELSE
    LET external_project == CHOOSE r \in found : TRUE
        jira_status == IF is_resolved THEN external_project.resolved_status
                       ELSE external_project.unresolved_status
        c2 == Append(c1, [fn |-> "get_transitions", key |-> external_issue.key])
    IN
    IF jira_issue.status = jira_status THEN Outcome(op, c1, <<>>, "none")
    ELSE IF remote.get_transitions.raised # "none"
    THEN Outcome(op, c2, <<>>, remote.get_transitions.raised)
    ELSE
    LET matching == MatchingTransitions(remote.get_transitions.value, jira_status)
    IN
    IF matching = <<>>
    THEN Outcome(op, c2, <<"jira.status-sync-fail">>, "none")
    ELSE
    LET transition == matching[1]
        c3 == Append(c2, [fn |-> "transition_issue", key |-> external_issue.key,
                          id |-> transition.id])
    IN  Outcome(op, c3, <<>>, remote.transition_issue.raised)

\* the arguments of a call and the answers the Jira client will give
StatusSyncArgs ==
    [external_issue : {ExternalIssue},
     is_resolved : BOOLEAN,
     remote : [get_issue : Answers(JiraIssues),
               get_transitions : Answers(TransitionLists),
               transition_issue : Answers({NoneV})]]

\* the tables the configuration surface can leave behind
ConfiguredRows ==
    {ReplaceRows(other, OrgIntegrationId, pm) :
        other \in {EmptyBag,
                   CreateRows(EmptyBag, OtherOrgIntegrationId,
                       [p \in ProjectIds |->
                           [on_resolve |-> ToString(10001),
                            on_unresolve |-> ToString(10001)]])},
        pm \in {m \in ProjectMappings : ~AnyMissingStatus(m)}}

InitStatusSync ==
    /\ rows \in ConfiguredRows
    /\ config = EmptyDict
    /\ stored_config = EmptyDict
    /\ arg \in StatusSyncArgs
    /\ ret = Idle

SyncStatusOutbound ==
    /\ ret = Idle
    /\ ret' = sync_status_outbound(rows, arg.external_issue, arg.is_resolved,
                                   arg.remote)
    /\ UNCHANGED <<rows, config, stored_config, arg>>

NextStatusSync == SyncStatusOutbound

SpecStatusSync == InitStatusSync /\ [][NextStatusSync]_vars

\* the client functions an outcome called
Called(o) == {o.calls[i].fn : i \in 1..Len(o.calls)}

\* C2: a remote-call failure during an outbound sync flow
\* (sync_status_outbound, sync_assignee_outbound) is contained: the operation
\* ends normally and no error propagates to the caller.
C2_SyncContainsFailures ==
    ret.op \in {"sync_status_outbound", "sync_assignee_outbound"} =>
        ret.raised = "none"

\* no mapping row exists for the issue's organization integration and project
NoMappingForIssue ==
    /\ arg.remote.get_issue.raised = "none"
    /\ ~\E r \in BagToSet(rows) :
           /\ r.organization_integration_id = OrgIntegrationId
           /\ r.external_id = arg.remote.get_issue.value.project

\* C3: in sync_status_outbound, if no IntegrationExternalProject mapping
\* exists for the (organization integration, Jira project of the issue) pair,
\* the operation is a no-op: it returns, and neither get_transitions nor
\* transition_issue is called, whatever is_resolved is.
C3_NoMappingNoTransition ==
    (ret.op = "sync_status_outbound" /\ NoMappingForIssue) =>
        /\ ret.raised = "none"
        /\ Called(ret) = {"get_issue"}

\* the project is mapped only by the other organization integration, and the
\* issue's status is not that mapping's target
C3_Witness ==
    /\ ret.op = "sync_status_outbound"
    /\ NoMappingForIssue
    /\ arg.is_resolved
    /\ FilterRows(rows, OrgIntegrationId) # {}
    /\ \E r \in FilterRows(rows, OtherOrgIntegrationId) :
           /\ r.external_id = arg.remote.get_issue.value.project
           /\ r.resolved_status # arg.remote.get_issue.value.status
    /\ arg.remote.get_transitions.raised = "none"
    /\ Len(arg.remote.get_transitions.value) > 0

\* the mapping rows of the issue's organization integration and project
MappingsForIssue ==
    {r \in BagToSet(rows) :
        /\ r.organization_integration_id = OrgIntegrationId
        /\ r.external_id = arg.remote.get_issue.value.project}

\* the transition_issue calls an outcome made
TransitionCalls(o) ==
    {i \in 1..Len(o.calls) : o.calls[i].fn = "transition_issue"}

\* C11: in sync_status_outbound with a configured mapping, the target is the
\* mapping's resolved_status when is_resolved and its unresolved_status
\* otherwise; transition_issue is called at most once, only when the issue's
\* current status differs from the target, and only with a transition whose
\* destination is the target; if no available transition leads to the
\* target, no transition call is made.
C11_TransitionOnlyToTarget ==
    (/\ ret.op = "sync_status_outbound"
     /\ arg.remote.get_issue.raised = "none"
     /\ MappingsForIssue # {}) =>
        \A r \in MappingsForIssue :
            LET target == IF arg.is_resolved THEN r.resolved_status
                          ELSE r.unresolved_status
                issue == arg.remote.get_issue.value
                offered == arg.remote.get_transitions
            IN  /\ Cardinality(TransitionCalls(ret)) <= 1
                /\ \A i \in TransitionCalls(ret) :
                       /\ issue.status # target
                       /\ offered.raised = "none"
                       /\ \E k \in 1..Len(offered.value) :
                              /\ offered.value[k].id = ret.calls[i].id
                              /\ offered.value[k].to = target
                /\ (/\ offered.raised = "none"
                    /\ ~\E k \in 1..Len(offered.value) :
                           offered.value[k].to = target)
                       => TransitionCalls(ret) = {}

\* a resolve whose target differs from the unresolve target and from the
\* issue's status, reached by the second of two offered transitions
C11_Witness ==
    /\ ret.op = "sync_status_outbound"
    /\ arg.remote.get_issue.raised = "none"
    /\ arg.is_resolved
    /\ \E r \in MappingsForIssue :
           /\ r.resolved_status # r.unresolved_status
           /\ r.resolved_status # arg.remote.get_issue.value.status
           /\ arg.remote.get_transitions.raised = "none"
           /\ Len(arg.remote.get_transitions.value) = 2
           /\ arg.remote.get_transitions.value[1].to # r.resolved_status
           /\ arg.remote.get_transitions.value[2].to = r.resolved_status
    /\ \E i \in TransitionCalls(ret) : ret.calls[i].id = 2

(***************************************************************************)
(* sync_assignee_outbound(external_issue, user, assign)                    *)
(***************************************************************************)
MaxResults == 2

Emails == {"a@example.com", "b@example.com"}
JiraNames == {"jira-a", "jira-b"}

\* the entries of a user search result
JiraUsers == [emailAddress : Emails, name : JiraNames]

SeqsUpTo(S, n) == UNION {[1..k -> S] : k \in 0..n}

\* user.emails: the addresses of the Sentry user, each verified or not,
\* no address twice
UserEmails ==
    {es \in SeqsUpTo([email : Emails, is_verified : BOOLEAN], Cardinality(Emails)) :
        \A i, j \in 1..Len(es) : es[i].email = es[j].email => i = j}

\* as VerifiedEmails, but unverified addresses are kept
VerifiedEmails_All(user) ==
    [i \in 1..Len(user.emails) |-> user.emails[i].email]

\* user.emails.filter(is_verified=True), as the addresses in order
VerifiedEmails(user) ==
    LET verified == SelectSeq(user.emails, LAMBDA ue : ue.is_verified)
    IN  [i \in 1..Len(verified) |-> verified[i].email]

SearchCall(external_issue, email) ==
    [fn |-> "search_users_for_issue", key |-> external_issue.key, email |-> email]

\* as FindJiraUser, but a failed search ends the loop
RECURSIVE FindJiraUser_StopOnError(_, _, _, _)
FindJiraUser_StopOnError(emails, external_issue, search, calls) ==
    IF emails = <<>> THEN [jira_user |-> NoneV, calls |-> calls]
    ELSE LET email == Head(emails)
             made == Append(calls, SearchCall(external_issue, email))
             res == search[email]
         IN  IF res.raised # "none"
             THEN [jira_user |-> NoneV, calls |-> made]
             ELSE LET matching == SelectSeq(res.value,
                                      LAMBDA r : r.emailAddress = email)
                  IN  IF matching = <<>>
                      THEN FindJiraUser_StopOnError(Tail(emails), external_issue,
                                                    search, made)
                      ELSE [jira_user |-> [t |-> "user", user |-> matching[1]],
                            calls |-> made]

\* the for loop over the verified emails: the jira_user it ends with and
\* the searches it made
RECURSIVE FindJiraUser(_, _, _, _)
FindJiraUser(emails, external_issue, search, calls) ==
    IF emails = <<>> THEN [jira_user |-> NoneV, calls |-> calls]
    ELSE LET email == Head(emails)
             made == Append(calls, SearchCall(external_issue, email))
             res == search[email]
         IN  IF res.raised # "none"
             THEN \* except (ApiUnauthorized, ApiError): continue
                  FindJiraUser(Tail(emails), external_issue, search, made)
             ELSE LET matching == SelectSeq(res.value,
                                      LAMBDA r : r.emailAddress = email)
                  IN  IF matching = <<>>
                      THEN \* except IndexError: pass
                           FindJiraUser(Tail(emails), external_issue, search, made)
                      ELSE \* else: break
                           [jira_user |-> [t |-> "user", user |-> matching[1]],
                            calls |-> made]

\* jira_user and jira_user['name']
AssigneeName(jira_user) ==
    IF jira_user = NoneV THEN NoneV ELSE StrV(jira_user.user.name)

sync_assignee_outbound(external_issue, user, assign, remote) ==
    LET op == "sync_assignee_outbound"
        found == IF assign
                 THEN FindJiraUser(VerifiedEmails(user), external_issue,
                                   remote.search_users_for_issue, <<>>)
                 ELSE [jira_user |-> NoneV, calls |-> <<>>]
        jira_user == found.jira_user
    IN
    IF assign /\ jira_user = NoneV
    THEN Outcome(op, found.calls, <<"jira.assignee-not-found">>, "none")
    ELSE
    LET calls == Append(found.calls,
                        [fn |-> "assign_issue", key |-> external_issue.key,
                         name |-> AssigneeName(jira_user)])
    IN  IF remote.assign_issue.raised # "none"
        THEN \* except (ApiUnauthorized, ApiError): log
             Outcome(op, calls, <<"jira.failed-to-assign">>, "none")
        ELSE Outcome(op, calls, <<>>, "none")

AssigneeSyncArgs ==
    [external_issue : {ExternalIssue},
     user : [id : {1}, emails : UserEmails],
     assign : BOOLEAN,
     remote : [search_users_for_issue :
                   [Emails -> Answers(SeqsUpTo(JiraUsers, MaxResults))],
               assign_issue : Answers({NoneV})]]

InitAssigneeSync ==
    /\ rows = EmptyBag
    /\ config = EmptyDict
    /\ stored_config = EmptyDict
    /\ arg \in AssigneeSyncArgs
    /\ ret = Idle

SyncAssigneeOutbound ==
    /\ ret = Idle
    /\ ret' = sync_assignee_outbound(arg.external_issue, arg.user, arg.assign,
                                     arg.remote)
    /\ UNCHANGED <<rows, config, stored_config, arg>>

NextAssigneeSync == SyncAssigneeOutbound

SpecAssigneeSync == InitAssigneeSync /\ [][NextAssigneeSync]_vars

\* some verified email of the user has a search answer holding an entry with
\* exactly that emailAddress
SomeVerifiedEmailMatches ==
    \E i \in 1..Len(arg.user.emails) :
        LET ue == arg.user.emails[i]
            res == arg.remote.search_users_for_issue[ue.email]
        IN  /\ ue.is_verified
            /\ res.raised = "none"
            /\ \E k \in 1..Len(res.value) : res.value[k].emailAddress = ue.email

\* C4: in sync_assignee_outbound with assign = true, if no verified email of
\* the user yields a search result whose emailAddress equals that email (every
\* search failing and no verified email included), assign_issue is never
\* called.
C4_NoMatchNoAssign ==
    (ret.op = "sync_assignee_outbound" /\ arg.assign /\ ~SomeVerifiedEmailMatches)
        => "assign_issue" \notin Called(ret)

\* a verified address whose search finds only another address, beside an
\* unverified address that Jira does know
C4_Witness ==
    /\ ret.op = "sync_assignee_outbound"
    /\ arg.assign
    /\ ~SomeVerifiedEmailMatches
    /\ "assign_issue" \notin Called(ret)
    /\ \E i, j \in 1..Len(arg.user.emails) :
           LET v == arg.user.emails[i]
               u == arg.user.emails[j]
               rv == arg.remote.search_users_for_issue[v.email]
               ru == arg.remote.search_users_for_issue[u.email]
           IN  /\ v.is_verified /\ ~u.is_verified
               /\ rv.raised = "none" /\ Len(rv.value) > 0
               /\ ru.raised = "none"
               /\ \E k \in 1..Len(ru.value) : ru.value[k].emailAddress = u.email

\* the verified addresses of the user, in the order of user.emails
VerifiedInOrder ==
    LET idx == {i \in 1..Len(arg.user.emails) : arg.user.emails[i].is_verified}
        Nth(n) == CHOOSE i \in idx : Cardinality({j \in idx : j < i}) = n - 1
    IN  [n \in 1..Cardinality(idx) |-> arg.user.emails[Nth(n)].email]

\* the search for this address answers with an entry of exactly this address
SearchMatches(email) ==
    LET res == arg.remote.search_users_for_issue[email]
    IN  /\ res.raised = "none"
        /\ \E k \in 1..Len(res.value) : res.value[k].emailAddress = email

\* the first entry of exactly this address in the answer for it
FirstEntryFor(email) ==
    LET res == arg.remote.search_users_for_issue[email]
        k == CHOOSE i \in 1..Len(res.value) :
                 /\ res.value[i].emailAddress = email
                 /\ \A j \in 1..(i - 1) : res.value[j].emailAddress # email
    IN  res.value[k]

\* the searches for the first n verified addresses, in order
SearchesUpTo(n) ==
    [i \in 1..n |-> [fn |-> "search_users_for_issue",
                     key |-> arg.external_issue.key,
                     email |-> VerifiedInOrder[i]]]

\* C12: with assign = true the verified emails are searched in order, a
\* failed search does not end the loop, the search stops at the first
\* email whose answer holds an entry of exactly that address, and
\* assign_issue is then called exactly once, with that Jira user's name;
\* with assign = false no search is made and assign_issue is called exactly
\* once, with no user.
C12_SearchInOrderThenAssignOnce ==
    ret.op = "sync_assignee_outbound" =>
        LET V == VerifiedInOrder
            hits == {n \in 1..Len(V) : SearchMatches(V[n])}
            AssignCall(name) == [fn |-> "assign_issue",
                                 key |-> arg.external_issue.key, name |-> name]
        IN  IF ~arg.assign
            THEN ret.calls = <<AssignCall(NoneV)>>
            ELSE IF hits = {}
            THEN ret.calls = SearchesUpTo(Len(V))
            ELSE LET first == CHOOSE n \in hits : \A m \in hits : n <= m
                 IN  ret.calls =
                         Append(SearchesUpTo(first),
                                AssignCall(StrV(FirstEntryFor(V[first]).name)))

\* two verified addresses: the search for the first fails, the answer for
\* the second holds another address and then the address itself
C12_Witness ==
    /\ ret.op = "sync_assignee_outbound"
    /\ arg.assign
    /\ Len(VerifiedInOrder) = 2
    /\ arg.remote.search_users_for_issue[VerifiedInOrder[1]].raised # "none"
    /\ LET e == VerifiedInOrder[2]
           res == arg.remote.search_users_for_issue[e]
       IN  /\ res.raised = "none"
           /\ Len(res.value) = 2
           /\ res.value[1].emailAddress # e
           /\ res.value[2].emailAddress = e
           /\ Len(ret.calls) = 3
           /\ ret.calls[3].fn = "assign_issue"
           /\ ret.calls[3].name = StrV(res.value[2].name)

(***************************************************************************)
(* Jira field metadata                                                     *)
(***************************************************************************)
\* JIRA_CUSTOM_FIELD_TYPES
JIRA_CUSTOM_FIELD_TYPES ==
    [select |-> "com.atlassian.jira.plugin.system.customfieldtypes:select",
     textarea |-> "com.atlassian.jira.plugin.system.customfieldtypes:textarea",
     multiuserpicker |->
         "com.atlassian.jira.plugin.system.customfieldtypes:multiuserpicker",
     tempo_account |-> "com.tempoplugin.tempo-accounts:accounts.customfield"]

\* schema['type'], schema.get('custom') and schema.get('items') as Jira sends
SchemaTypes ==
    {"string", "number", "user", "array", "priority", "securitylevel",
     "timetracking", "issuetype"}
SchemaCustoms ==
    {JIRA_CUSTOM_FIELD_TYPES[k] : k \in DOMAIN JIRA_CUSTOM_FIELD_TYPES}
        \cup {"com.atlassian.jira.plugin.system.customfieldtypes:url"}
SchemaItems == {"string", "user", "worklog", "attachment", "option"}

\* a schema: type always present, custom and items present or not
Schemas ==
    {s \in Dicts({"type", "custom", "items"},
                 SchemaTypes \cup SchemaCustoms \cup SchemaItems) :
        /\ "type" \in DOMAIN s /\ s["type"] \in SchemaTypes
        /\ "custom" \in DOMAIN s => s["custom"] \in SchemaCustoms
        /\ "items" \in DOMAIN s => s["items"] \in SchemaItems}

\* d.get(k) == v, for a v that is not None
GetIs(d, k, v) == k \in DOMAIN d /\ d[k] = v

\* d.get(k) is truthy, for string and list values
GetTruthy(d, k) == k \in DOMAIN d /\ Len(d[k]) > 0

(***************************************************************************)
(* quote_plus                                                              *)
(***************************************************************************)
\* the characters quote_plus leaves alone, among those of the URLs here
SafeChars == {"a", "q", "r", "_", ".", "-"}

\* the escape of one character
QuoteChar(c) ==
    IF c \in SafeChars THEN c
    ELSE IF c = " " THEN "+"
    ELSE IF c = "/" THEN "%2F"
    ELSE IF c = ":" THEN "%3A"
    ELSE IF c = "?" THEN "%3F"
    ELSE IF c = "=" THEN "%3D"
    ELSE "%25"

\* quote_plus over a string given as the sequence of its characters
RECURSIVE quote_plus(_)
quote_plus(cs) ==
    IF cs = <<>> THEN "" ELSE QuoteChar(Head(cs)) \o quote_plus(Tail(cs))

(***************************************************************************)
(* make_choices(x), build_dynamic_field(group, field_meta)                 *)
(***************************************************************************)
\* the allowedValues of a field: entries with a name, or with a value only
AllowedValueLists ==
    {<<>>,
     <<[id |-> "1", name |-> "High"], [id |-> "2", value |-> "Low"]>>}

\* the autoCompleteUrl of a field, as characters
AutoCompleteUrls == {<<>>, <<"/", "r", "?", "q", "=">>}

\* field_meta: name, required and schema, with allowedValues and
\* autoCompleteUrl present or not
FieldMetas ==
    {base @@ av @@ url :
        base \in [name : {"Sprint", "Story Points"}, required : BOOLEAN,
                  schema : Schemas],
        av \in {EmptyDict} \cup
               {[k \in {"allowedValues"} |-> x] : x \in AllowedValueLists},
        url \in {EmptyDict} \cup
                {[k \in {"autoCompleteUrl"} |-> x] : x \in AutoCompleteUrls}}

\* [(y['id'], y['name'] if 'name' in y else y['value']) for y in x] if x else []
make_choices(x) ==
    [i \in 1..Len(x) |->
        <<x[i].id, IF "name" \in DOMAIN x[i] THEN x[i].name ELSE x[i].value>>]

\* make_choices(field_meta.get('allowedValues'))
ChoicesOf(field_meta) ==
    IF "allowedValues" \in DOMAIN field_meta
    THEN make_choices(field_meta.allowedValues) ELSE <<>>

\* reverse('sentry-extensions-jira-search', args=[organization.slug, model.id])
SentryUrl(group) ==
    [route |-> "sentry-extensions-jira-search",
     args |-> <<group.organization.slug, 1>>]

Group == [organization |-> [slug |-> "org"]]

\* the  if schema.get('custom'): ...  overlay and the final fkwargs['type']
WithType(fkwargs, fieldtype, schema) ==
    fkwargs @@ [k \in {"type"} |->
        IF GetIs(schema, "custom", JIRA_CUSTOM_FIELD_TYPES.textarea)
        THEN "textarea" ELSE fieldtype]

Returned(op, v) == [op |-> op, raised |-> "none", value |-> v]
Raised(op, e) == [op |-> op, raised |-> e]
DictV(d) == [t |-> "dict", d |-> d]

\* as build_dynamic_field, but without the timetracking branch
build_dynamic_field_NoTimetracking(group, field_meta) ==
    LET op == "build_dynamic_field"
        schema == field_meta.schema
        fkwargs == [label |-> field_meta.name, required |-> field_meta.required]
    IN
    IF \/ schema["type"] \in {"securitylevel", "priority"}
       \/ GetIs(schema, "custom", JIRA_CUSTOM_FIELD_TYPES.select)
    THEN Returned(op, DictV(WithType(
             fkwargs @@ [k \in {"choices"} |-> ChoicesOf(field_meta)],
             "select", schema)))
    ELSE IF /\ GetTruthy(field_meta, "autoCompleteUrl")
            /\ (GetIs(schema, "items", "user") \/ schema["type"] = "user")
    THEN Returned(op, DictV(WithType(
             fkwargs @@ [k \in {"url"} |->
                 [base |-> SentryUrl(group),
                  jira_url |-> quote_plus(field_meta.autoCompleteUrl)]],
             "select", schema)))
    ELSE IF GetIs(schema, "items", "worklog") \/ GetIs(schema, "items", "attachment")
    THEN Returned(op, NoneV)
    ELSE IF schema["type"] = "array" /\ "items" \notin DOMAIN schema
    THEN Raised(op, "KeyError")
    ELSE IF schema["type"] = "array" /\ schema["items"] # "string"
    THEN Returned(op, DictV(WithType(
             fkwargs @@ [multiple |-> TRUE, choices |-> ChoicesOf(field_meta),
                         default |-> <<>>],
             "select", schema)))
    ELSE Returned(op, DictV(WithType(fkwargs, "text", schema)))

build_dynamic_field(group, field_meta) ==
    LET op == "build_dynamic_field"
        schema == field_meta.schema
        fkwargs == [label |-> field_meta.name, required |-> field_meta.required]
    IN
    IF \/ schema["type"] \in {"securitylevel", "priority"}
       \/ GetIs(schema, "custom", JIRA_CUSTOM_FIELD_TYPES.select)
    THEN Returned(op, DictV(WithType(
             fkwargs @@ [k \in {"choices"} |-> ChoicesOf(field_meta)],
             "select", schema)))
    ELSE IF /\ GetTruthy(field_meta, "autoCompleteUrl")
            /\ (GetIs(schema, "items", "user") \/ schema["type"] = "user")
    THEN Returned(op, DictV(WithType(
             fkwargs @@ [k \in {"url"} |->
                 [base |-> SentryUrl(group),
                  jira_url |-> quote_plus(field_meta.autoCompleteUrl)]],
             "select", schema)))
    ELSE IF schema["type"] \in {"timetracking"}
    THEN Returned(op, NoneV)
    ELSE IF GetIs(schema, "items", "worklog") \/ GetIs(schema, "items", "attachment")
    THEN Returned(op, NoneV)
    ELSE IF schema["type"] = "array" /\ "items" \notin DOMAIN schema
    THEN \* schema['items'] of a schema without items
         Raised(op, "KeyError")
    ELSE IF schema["type"] = "array" /\ schema["items"] # "string"
    THEN Returned(op, DictV(WithType(
             fkwargs @@ [multiple |-> TRUE, choices |-> ChoicesOf(field_meta),
                         default |-> <<>>],
             "select", schema)))
    ELSE Returned(op, DictV(WithType(fkwargs, "text", schema)))

InitFields ==
    /\ rows = EmptyBag
    /\ config = EmptyDict
    /\ stored_config = EmptyDict
    /\ arg \in [group : {Group}, field_meta : FieldMetas]
    /\ ret = Idle

BuildDynamicField ==
    /\ ret = Idle
    /\ ret' = build_dynamic_field(arg.group, arg.field_meta)
    /\ UNCHANGED <<rows, config, stored_config, arg>>

NextFields == BuildDynamicField

SpecFields == InitFields /\ [][NextFields]_vars

\* build_dynamic_field has answered for a field of schema type timetracking
TimetrackingBuilt ==
    /\ ret.op = "build_dynamic_field"
    /\ arg.field_meta.schema["type"] = "timetracking"

\* C8 as stated: for all field metadata whose schema type is timetracking,
\* whatever its custom-field identifier, item type and autocomplete URL,
\* build_dynamic_field returns no descriptor.
C8_TimetrackingAlwaysOmitted ==
    TimetrackingBuilt => (ret.raised = "none" /\ ret.value = NoneV)

\* one of the two rules ahead of the timetracking rule applies to the field
EarlierRuleApplies(field_meta) ==
    \/ GetIs(field_meta.schema, "custom", JIRA_CUSTOM_FIELD_TYPES.select)
    \/ /\ "autoCompleteUrl" \in DOMAIN field_meta
       /\ field_meta.autoCompleteUrl # <<>>
       /\ GetIs(field_meta.schema, "items", "user")

\* C8, amended: for field metadata whose schema type is timetracking,
\* build_dynamic_field returns no descriptor unless the custom-field
\* identifier is the built-in select type or the field has an autocomplete
\* URL together with item type user; in those two cases it returns a
\* descriptor.
C8_TimetrackingOmittedUnlessEarlierRule ==
    TimetrackingBuilt =>
        /\ ret.raised = "none"
        /\ IF EarlierRuleApplies(arg.field_meta)
           THEN ret.value # NoneV /\ ret.value.d["type"] \in {"select", "textarea"}
           ELSE ret.value = NoneV

\* a timetracking field with a textarea identifier, an autocomplete URL and
\* string items, omitted
C8_Witness ==
    /\ TimetrackingBuilt
    /\ ret.value = NoneV
    /\ GetIs(arg.field_meta.schema, "custom", JIRA_CUSTOM_FIELD_TYPES.textarea)
    /\ GetIs(arg.field_meta.schema, "items", "string")
    /\ GetTruthy(arg.field_meta, "autoCompleteUrl")

(***************************************************************************)
(* Posted form values                                                      *)
(***************************************************************************)
\* a string as the sequence of its characters, a list, a number
CharsV(cs) == [t |-> "chars", s |-> cs]
ListV(xs) == [t |-> "list", xs |-> xs]
IntV(n) == [t |-> "int", n |-> n]
\* a float, as the fraction num / den
FloatV(num, den) == [t |-> "float", num |-> num, den |-> den]
\* a dict with the one key k
Dict1(k, v) == DictV([x \in {k} |-> v])

\* Python truthiness of a posted value
TruthyV(v) ==
    IF v.t = "chars" THEN v.s # <<>>
    ELSE IF v.t = "list" THEN v.xs # <<>>
    ELSE v # NoneV

\* for vx in v: the characters of a string, the elements of a list
Elements(v) ==
    IF v.t = "chars" THEN [i \in 1..Len(v.s) |-> CharsV(<<v.s[i]>>)] ELSE v.xs

DigitChars == <<"0", "1", "2", "3", "4", "5", "6", "7", "8", "9">>
IsDigit(c) == \E i \in 1..10 : DigitChars[i] = c
DigitValue(c) == (CHOOSE i \in 1..10 : DigitChars[i] = c) - 1
AllDigits(cs) == \A i \in 1..Len(cs) : IsDigit(cs[i])

\* the number a digit string denotes
RECURSIVE DecimalValue(_)
DecimalValue(cs) ==
    IF cs = <<>> THEN 0
    ELSE 10 * DecimalValue(SubSeq(cs, 1, Len(cs) - 1)) + DigitValue(cs[Len(cs)])

RECURSIVE PowerOfTen(_)
PowerOfTen(n) == IF n = 0 THEN 1 ELSE 10 * PowerOfTen(n - 1)

\* int(v) of a string: ValueError unless it is all digits
ParseInt(cs) ==
    IF cs # <<>> /\ AllDigits(cs) THEN Ok(IntV(DecimalValue(cs)))
    ELSE Fail("ValueError")

\* float(v) of a string with a '.': digits around one point
ParseFloat(cs) ==
    LET dot == CHOOSE i \in 1..Len(cs) : cs[i] = "."
        whole == SubSeq(cs, 1, dot - 1)
        frac == SubSeq(cs, dot + 1, Len(cs))
    IN  IF AllDigits(whole) /\ AllDigits(frac) /\ Len(whole) + Len(frac) > 0
        THEN Ok(FloatV(DecimalValue(whole \o frac), PowerOfTen(Len(frac))))
        ELSE Fail("ValueError")

\* the try block of the number branch: the parsed number, the string itself
\* after a ValueError, or the TypeError of int() on a list
ParseNumber(v) ==
    IF v.t # "chars" THEN Fail("TypeError")
    ELSE LET parsed == IF \E i \in 1..Len(v.s) : v.s[i] = "."
                       THEN ParseFloat(v.s) ELSE ParseInt(v.s)
         IN  IF parsed.raised = "none" THEN parsed ELSE Ok(v)

(***************************************************************************)
(* create_issue(data): the cleaning of one field                           *)
(***************************************************************************)
\* as CleanValue, but a non-string array wraps the value whole
CleanValue_WrapWhole(v, schema) ==
    IF GetIs(schema, "type", "string") /\ ~GetTruthy(schema, "custom")
    THEN Ok(v)
    ELSE IF schema["type"] = "user" \/ GetIs(schema, "items", "user")
    THEN Ok(Dict1("name", v))
    ELSE IF GetIs(schema, "custom", JIRA_CUSTOM_FIELD_TYPES.multiuserpicker)
    THEN Ok(ListV(<<Dict1("name", v)>>))
    ELSE IF schema["type"] = "array" /\ ~GetIs(schema, "items", "string")
    THEN Ok(ListV(<<Dict1("id", v)>>))
    ELSE IF schema["type"] = "array" /\ GetIs(schema, "items", "string")
    THEN Ok(ListV(<<v>>))
    ELSE IF GetIs(schema, "custom", JIRA_CUSTOM_FIELD_TYPES.textarea)
    THEN Ok(v)
    ELSE IF \/ schema["type"] = "number"
            \/ GetIs(schema, "custom", JIRA_CUSTOM_FIELD_TYPES.tempo_account)
    THEN ParseNumber(v)
    ELSE IF \/ ~GetIs(schema, "type", "string")
            \/ (GetTruthy(schema, "items") /\ ~GetIs(schema, "items", "string"))
            \/ GetIs(schema, "custom", JIRA_CUSTOM_FIELD_TYPES.select)
    THEN Ok(Dict1("id", v))
    ELSE Ok(v)

\* the if / elif chain over the schema of a field with a truthy value v
CleanValue(v, schema) ==
    IF GetIs(schema, "type", "string") /\ ~GetTruthy(schema, "custom")
    THEN Ok(v)
    ELSE IF schema["type"] = "user" \/ GetIs(schema, "items", "user")
    THEN Ok(Dict1("name", v))
    ELSE IF GetIs(schema, "custom", JIRA_CUSTOM_FIELD_TYPES.multiuserpicker)
    THEN Ok(ListV(<<Dict1("name", v)>>))
    ELSE IF schema["type"] = "array" /\ ~GetIs(schema, "items", "string")
    THEN Ok(ListV([i \in 1..Len(Elements(v)) |-> Dict1("id", Elements(v)[i])]))
    ELSE IF schema["type"] = "array" /\ GetIs(schema, "items", "string")
    THEN Ok(ListV(<<v>>))
    ELSE IF GetIs(schema, "custom", JIRA_CUSTOM_FIELD_TYPES.textarea)
    THEN Ok(v)
    ELSE IF \/ schema["type"] = "number"
            \/ GetIs(schema, "custom", JIRA_CUSTOM_FIELD_TYPES.tempo_account)
    THEN ParseNumber(v)
    ELSE IF \/ ~GetIs(schema, "type", "string")
            \/ (GetTruthy(schema, "items") /\ ~GetIs(schema, "items", "string"))
            \/ GetIs(schema, "custom", JIRA_CUSTOM_FIELD_TYPES.select)
    THEN Ok(Dict1("id", v))
    ELSE Ok(v)

\* what one pass of the loop body does to cleaned_data
Skip == [kind |-> "skip"]
Store(k, v) == [kind |-> "store", key |-> k, value |-> v]
Abort(e) == [kind |-> "raise", raised |-> e]

\* the body of  for field in fs.keys()  for one field f = fs[field]
CleanField(field, f, data) ==
    IF field = "description"
    THEN IF field \in DOMAIN data THEN Store(field, data[field])
         ELSE Abort("KeyError")
    ELSE IF field = "summary"
    THEN IF "title" \in DOMAIN data THEN Store("summary", data["title"])
         ELSE Abort("KeyError")
    ELSE IF field \notin DOMAIN data THEN Skip
    ELSE IF ~TruthyV(data[field]) THEN Skip
    ELSE IF "schema" \notin DOMAIN f THEN Store(field, data[field])
    ELSE LET cleaned == CleanValue(data[field], f.schema)
         IN  IF cleaned.raised = "none" THEN Store(field, cleaned.value)
             ELSE Abort(cleaned.raised)

\* what the form can post for a field
PostedValues ==
    {CharsV(<<>>), CharsV(<<"3">>), CharsV(<<"3", ".", "5">>),
     CharsV(<<"a", "b">>), ListV(<<>>),
     ListV(<<CharsV(<<"7">>), CharsV(<<"8">>)>>)}

\* the metadata of one field: its schema, present or not
FieldsOfMeta == {EmptyDict} \cup {[k \in {"schema"} |-> x] : x \in Schemas}

\* the posted data around one field: title and description as the form always
\* sends them, the field itself posted or not
TitleV == CharsV(<<"t">>)
DescriptionV == CharsV(<<"d">>)
CleanFieldNames == {"description", "summary", "issuetype", "customfield_10010"}
PostedData(field) ==
    {[title |-> TitleV, description |-> DescriptionV] @@ posted :
        posted \in {EmptyDict} \cup
                   {[k \in {field} |-> v] : v \in PostedValues}}
CleanArgs ==
    UNION {[field : {field}, f : FieldsOfMeta, data : PostedData(field)] :
               field \in CleanFieldNames}

InitClean ==
    /\ rows = EmptyBag
    /\ config = EmptyDict
    /\ stored_config = EmptyDict
    /\ arg \in CleanArgs
    /\ ret = Idle

CleanOneField ==
    /\ ret = Idle
    /\ ret' = [op |-> "clean_field",
               result |-> CleanField(arg.field, arg.f, arg.data)]
    /\ UNCHANGED <<rows, config, stored_config, arg>>

NextClean == CleanOneField

SpecClean == InitClean /\ [][NextClean]_vars

\* the loop body ran for a field of array schema with a non-empty value
ArrayFieldCleaned ==
    /\ ret.op = "clean_field"
    /\ "schema" \in DOMAIN arg.f
    /\ arg.f.schema["type"] = "array"
    /\ arg.field \in DOMAIN arg.data
    /\ TruthyV(arg.data[arg.field])

\* the cleaned value of the claim: {id: element} over the posted elements
\* for non-string items, the one-element sequence of the value for string
\* items
ExpectedArrayValue(v, schema) ==
    IF GetIs(schema, "items", "string") THEN ListV(<<v>>)
    ELSE ListV([i \in 1..Len(Elements(v)) |->
                   DictV([k \in {"id"} |-> Elements(v)[i]])])

\* C9 as stated: for every field whose schema type is array and whose posted
\* value is non-empty, the cleaned value is the sequence of {id: element}
\* when the item type is not string, and the one-element sequence holding
\* the posted value when it is.
C9_ArrayCleaning ==
    ArrayFieldCleaned =>
        ret.result = Store(arg.field,
                           ExpectedArrayValue(arg.data[arg.field], arg.f.schema))

\* a branch ahead of the array branches takes the field
TakenBeforeArray(field, schema) ==
    \/ field \in {"description", "summary"}
    \/ GetIs(schema, "items", "user")
    \/ GetIs(schema, "custom", JIRA_CUSTOM_FIELD_TYPES.multiuserpicker)

\* C9, amended: the same, for every field other than description and
\* summary whose item type is not user and whose custom-field identifier is
\* not the multi-user picker.
C9_ArrayCleaningAfterEarlierBranches ==
    (ArrayFieldCleaned /\ ~TakenBeforeArray(arg.field, arg.f.schema)) =>
        ret.result = Store(arg.field,
                           ExpectedArrayValue(arg.data[arg.field], arg.f.schema))

\* a posted list of two for an array of options that is also a tempo account
C9_Witness ==
    /\ ArrayFieldCleaned
    /\ ~TakenBeforeArray(arg.field, arg.f.schema)
    /\ GetIs(arg.f.schema, "items", "option")
    /\ GetIs(arg.f.schema, "custom", JIRA_CUSTOM_FIELD_TYPES.tempo_account)
    /\ arg.data[arg.field].t = "list"
    /\ ret.result.kind = "store"
    /\ Len(ret.result.value.xs) = 2

(***************************************************************************)
(* get_issue_type_meta(issue_type, meta), create_issue(data)               *)
(***************************************************************************)
\* data.get(k): the value posted under k, or None
DataGet(data, k) == IF k \in DOMAIN data THEN data[k] ELSE NoneV

\* as get_issue_type_meta, but falling back to the last issue type
get_issue_type_meta_Last(issue_type, meta) ==
    LET issue_types == meta.issuetypes
        matching_type == IF TruthyV(issue_type)
                         THEN SelectSeq(issue_types, LAMBDA t : t.id = issue_type)
                         ELSE <<>>
    IN  IF matching_type # <<>> THEN Ok(matching_type[1])
        ELSE IF issue_types # <<>> THEN Ok(issue_types[Len(issue_types)])
        ELSE Fail("IndexError")

\* the issue type of meta['issuetypes'] with the requested id, else the
\* first one; IndexError when the project has no issue type
get_issue_type_meta(issue_type, meta) ==
    LET issue_types == meta.issuetypes
        matching_type == IF TruthyV(issue_type)
                         THEN SelectSeq(issue_types, LAMBDA t : t.id = issue_type)
                         ELSE <<>>
    IN  IF matching_type # <<>> THEN Ok(matching_type[1])
        ELSE IF issue_types # <<>> THEN Ok(issue_types[1])
        ELSE Fail("IndexError")

\* isinstance(v, dict) and 'id' in v
IsDictWithId(v) == v.t = "dict" /\ "id" \in DOMAIN v.d

\* the  if not (isinstance(...) and 'id' in ...)  step after the loop
WrapIssueType(v) == IF ~IsDictWithId(v) THEN Dict1("id", v) ELSE v

\* the whole for loop: what each field of fs does to cleaned_data
LoopResults(fs, data) == {CleanField(field, fs[field], data) : field \in DOMAIN fs}

\* cleaned_data after the loop, when no pass raised
CleanedData(fs, data) ==
    LET stored == {r \in LoopResults(fs, data) : r.kind = "store"}
    IN  [k \in {r.key : r \in stored} |->
            (CHOOSE r \in stored : r.key = k).value]

create_issue(data, remote) ==
    LET op == "create_issue"
        Ended(calls, raised) == Outcome(op, calls, <<>>, raised)
        c1 == <<[fn |-> "get_create_meta_for_project",
                 project |-> DataGet(data, "project")]>>
        meta == remote.get_create_meta_for_project
    IN
    IF ~TruthyV(DataGet(data, "issuetype")) THEN Ended(<<>>, "IntegrationError")
    ELSE IF ~TruthyV(DataGet(data, "project")) THEN Ended(<<>>, "IntegrationError")
    ELSE IF meta.raised # "none" THEN Ended(c1, meta.raised)
    ELSE IF meta.value = NoneV THEN Ended(c1, "IntegrationError")
    ELSE
    LET issue_type_meta == get_issue_type_meta(data["issuetype"], meta.value)
    IN
    IF issue_type_meta.raised # "none" THEN Ended(c1, issue_type_meta.raised)
    ELSE
    LET fs == issue_type_meta.value.fields
        aborted == {r \in LoopResults(fs, data) : r.kind = "raise"}
        cleaned_data == CleanedData(fs, data)
    IN
    IF aborted # {} THEN Ended(c1, (CHOOSE r \in aborted : TRUE).raised)
    ELSE IF "issuetype" \notin DOMAIN cleaned_data
    THEN \* cleaned_data['issuetype'] of a dict without the key
         Ended(c1, "KeyError")
    ELSE
    LET payload == [k \in {"issuetype"} |-> WrapIssueType(cleaned_data["issuetype"])]
                       @@ cleaned_data
        c2 == Append(c1, [fn |-> "create_issue", data |-> payload])
        response == remote.create_issue
    IN
    IF response.raised # "none" THEN Ended(c2, "raise_error")
    ELSE IF "key" \notin DOMAIN response.value THEN Ended(c2, "IntegrationError")
    ELSE
    LET issue_key == response.value.key
        c3 == Append(c2, [fn |-> "get_issue", key |-> issue_key])
        issue == remote.get_issue
    IN
    IF issue.raised # "none" THEN Ended(c3, issue.raised)
    ELSE Ended(c3, "none") @@
         [value |-> [title |-> issue.value.fields.summary,
                     description |-> issue.value.fields.description,
                     key |-> issue_key]]

\* the fields of the first issue type: issuetype with one of four schemas or
\* left out, summary and description, one custom field
IssueTypeFieldMetas ==
    {EmptyDict, [schema |-> [type |-> "issuetype"]],
     [schema |-> [type |-> "string"]], [schema |-> [type |-> "user"]]}
CustomFieldMetas ==
    {EmptyDict, [schema |-> [type |-> "number"]],
     [schema |-> [type |-> "array", items |-> "option"]]}
StandardFieldMetas ==
    [summary |-> [schema |-> [type |-> "string"]],
     description |-> [schema |-> [type |-> "string"]]]

FieldSets ==
    {it @@ std @@ cf :
        it \in {EmptyDict} \cup
               {[k \in {"issuetype"} |-> f] : f \in IssueTypeFieldMetas},
        std \in {EmptyDict, StandardFieldMetas},
        cf \in {EmptyDict} \cup
               {[k \in {"customfield_10010"} |-> f] : f \in CustomFieldMetas}}

\* the create metadata of the project: one or two issue types
IssueType(id, fs) == [id |-> CharsV(<<id>>), fields |-> fs]
OtherIssueType == IssueType("2", StandardFieldMetas)
CreateMetas ==
    {[issuetypes |-> <<>>]} \cup
    UNION {{[issuetypes |-> <<IssueType("1", fs)>>],
            [issuetypes |-> <<IssueType("1", fs), OtherIssueType>>],
            [issuetypes |-> <<OtherIssueType, IssueType("1", fs)>>]} :
               fs \in FieldSets}

\* the posted form: issuetype and project possibly empty, the custom field
\* posted or not
CreateData ==
    {[title |-> TitleV, description |-> DescriptionV, issuetype |-> it,
      project |-> pr] @@ cf :
        it \in {CharsV(<<>>), CharsV(<<"1">>), CharsV(<<"2">>), CharsV(<<"9">>)},
        pr \in {CharsV(<<>>), CharsV(<<"P">>)},
        cf \in {EmptyDict} \cup
               {[k \in {"customfield_10010"} |-> v] :
                    v \in {CharsV(<<"3">>),
                           ListV(<<CharsV(<<"7">>), CharsV(<<"8">>)>>)}}}

CreateArgs ==
    [data : CreateData,
     remote : [get_create_meta_for_project :
                   {Fail("ApiError"), Ok(NoneV)} \cup {Ok(m) : m \in CreateMetas},
               create_issue :
                   {Fail("ApiError"), Ok(EmptyDict), Ok([key |-> "APP-1"])},
               get_issue :
                   {Fail("ApiError"),
                    Ok([fields |-> [summary |-> TitleV,
                                    description |-> DescriptionV]])}]]

InitCreate ==
    /\ rows = EmptyBag
    /\ config = EmptyDict
    /\ stored_config = EmptyDict
    /\ arg \in CreateArgs
    /\ ret = Idle

CreateIssue ==
    /\ ret = Idle
    /\ ret' = create_issue(arg.data, arg.remote)
    /\ UNCHANGED <<rows, config, stored_config, arg>>

NextCreate == CreateIssue

SpecCreate == InitCreate /\ [][NextCreate]_vars

\* create_issue ran with non-empty issuetype and project, got the metadata
\* of a project with issue types, and its cleaning loop raised nothing
CleaningCompleted ==
    /\ ret.op = "create_issue"
    /\ TruthyV(arg.data["issuetype"])
    /\ TruthyV(arg.data["project"])
    /\ arg.remote.get_create_meta_for_project.raised = "none"
    /\ arg.remote.get_create_meta_for_project.value # NoneV
    /\ arg.remote.get_create_meta_for_project.value.issuetypes # <<>>
    /\ ret.raised \notin {"TypeError", "IndexError"}

\* the payloads handed to client.create_issue
Payloads(o) ==
    {o.calls[i].data : i \in {j \in 1..Len(o.calls) : o.calls[j].fn = "create_issue"}}

\* C10: for every create_issue call with non-empty issuetype and project and
\* present metadata, the payload submitted to the create call carries
\* issuetype as a record {id: <value>}, whether or not the metadata's field
\* set contains issuetype, and wrapping a wrapped value changes nothing.
C10_IssueTypeAlwaysWrapped ==
    CleaningCompleted =>
        /\ Payloads(ret) # {}
        /\ \A payload \in Payloads(ret) :
               /\ "issuetype" \in DOMAIN payload
               /\ IsDictWithId(payload["issuetype"])
               /\ WrapIssueType(payload["issuetype"]) = payload["issuetype"]

(***************************************************************************)
(* get_create_issue_config(group, params=...)                              *)
(***************************************************************************)
\* HIDDEN_ISSUE_FIELDS
HIDDEN_ISSUE_FIELDS ==
    [keys |-> {"parent", "issuelinks"}, names |-> {"Sprint", "Epic Link"}]

\* anti_gravity.get(f) or 0
AntiGravity(f) ==
    IF f = "priority" THEN 0 - 150
    ELSE IF f = "fixVersions" THEN 0 - 125
    ELSE IF f = "components" THEN 0 - 100
    ELSE IF f = "security" THEN 0 - 50
    ELSE 0

\* the order in which fields.keys() lists the keys of the metadata here
KeyOrder ==
    <<"summary", "labels", "parent", "fixVersions", "issuetype",
      "timetracking", "priority", "customfield_10010">>
KeysOf(fs) == SelectSeq(KeyOrder, LAMBDA k : k \in DOMAIN fs)

\* dynamic_fields.sort(key=...): a stable sort on the five gravities
SortByGravity(keys) ==
    SelectSeq(keys, LAMBDA f : AntiGravity(f) = 0 - 150)
        \o SelectSeq(keys, LAMBDA f : AntiGravity(f) = 0 - 125)
        \o SelectSeq(keys, LAMBDA f : AntiGravity(f) = 0 - 100)
        \o SelectSeq(keys, LAMBDA f : AntiGravity(f) = 0 - 50)
        \o SelectSeq(keys, LAMBDA f : AntiGravity(f) = 0)

\* the fields of the generic form, as the base class returns them
BaseFields ==
    <<[name |-> "title", label |-> "Title", type |-> "string"],
      [name |-> "description", label |-> "Description", type |-> "textarea"]>>

\* [(p['id'], p['key']) for p in client.get_projects_list()]
ProjectChoices(projects) ==
    [i \in 1..Len(projects) |-> <<projects[i].id, projects[i].key>>]

\* the keys the loop over dynamic_fields does not skip, in its order
DynamicKeys(fs, standard_fields) ==
    LET ignored_fields ==
            {k \in DOMAIN fs : fs[k].name \in HIDDEN_ISSUE_FIELDS.names}
                \cup HIDDEN_ISSUE_FIELDS.keys
    IN  SelectSeq(SortByGravity(KeysOf(fs)),
                  LAMBDA f : f \notin standard_fields /\ f \notin ignored_fields)

\* the last loop: the live choices of the priority and fixVersions fields;
\* what it raised, the fields it went through and the calls made
RECURSIVE PostProcess(_, _, _, _)
PostProcess(fields, meta, remote, calls) ==
    IF fields = <<>>
    THEN [raised |-> "none", fields |-> <<>>, calls |-> calls]
    ELSE
    LET field == Head(fields)
        Rest(f, made) ==
            LET rest == PostProcess(Tail(fields), meta, remote, made)
            IN  [rest EXCEPT !.fields = <<f>> \o @]
    IN  IF field["name"] = "priority"
        THEN LET made == Append(calls, [fn |-> "get_priorities"])
                 res == remote.get_priorities
             IN  IF res.raised # "none"
                 THEN [raised |-> res.raised, fields |-> <<>>, calls |-> made]
                 ELSE Rest([choices |-> make_choices(res.value),
                            default |-> CharsV(<<>>)] @@ field, made)
        ELSE IF field["name"] = "fixVersions"
        THEN LET made == Append(calls, [fn |-> "get_versions",
                                        project |-> meta.key])
                 res == remote.get_versions
             IN  IF res.raised # "none"
                 THEN [raised |-> res.raised, fields |-> <<>>, calls |-> made]
                 ELSE Rest([k \in {"choices"} |-> make_choices(res.value)]
                               @@ field, made)
        ELSE Rest(field, calls)

get_create_issue_config(group, params, remote) ==
    LET op == "get_create_issue_config"
        Ended(calls, raised) == Outcome(op, calls, <<>>, raised)
        c1 == <<[fn |-> "get_create_meta", project |-> DataGet(params, "project")]>>
        resp == remote.get_create_meta
    IN
    IF resp.raised = "ApiUnauthorized" THEN Ended(c1, "IntegrationError")
    ELSE IF resp.raised # "none" THEN Ended(c1, resp.raised)
    ELSE IF resp.value.projects = <<>> THEN Ended(c1, "IntegrationError")
    ELSE
    LET meta == resp.value.projects[1]
        requested == DataGet(params, "issuetype")
        issue_type_meta == get_issue_type_meta(requested, meta)
    IN
    IF issue_type_meta.raised # "none" THEN Ended(c1, issue_type_meta.raised)
    ELSE
    LET issue_type_choices == make_choices(meta.issuetypes)
        issue_type ==
            IF /\ TruthyV(requested)
               /\ ~\E i \in 1..Len(issue_type_choices) :
                      issue_type_choices[i][1] = requested
            THEN issue_type_meta.value.id
            ELSE requested
        c2 == Append(c1, [fn |-> "get_projects_list"])
        projects == remote.get_projects_list
    IN
    IF projects.raised # "none" THEN Ended(c2, projects.raised)
    ELSE
    LET fixed ==
            <<[name |-> "project", label |-> "Jira Project",
               choices |-> ProjectChoices(projects.value),
               default |-> meta.id, type |-> "select", updatesForm |-> TRUE]>>
            \o BaseFields \o
            <<[name |-> "issuetype", label |-> "Issue Type",
               default |-> IF TruthyV(issue_type) THEN issue_type
                           ELSE issue_type_meta.value.id,
               type |-> "select", choices |-> issue_type_choices,
               updatesForm |-> TRUE]>>
        standard_fields == {fixed[i]["name"] : i \in 1..Len(fixed)} \cup {"summary"}
        fs == issue_type_meta.value.fields
        keys == DynamicKeys(fs, standard_fields)
        built == [i \in 1..Len(keys) |-> build_dynamic_field(group, fs[keys[i]])]
        failed == {i \in 1..Len(keys) : built[i].raised # "none"}
    IN
    IF failed # {}
    THEN Ended(c2, built[CHOOSE i \in failed : \A j \in failed : i <= j].raised)
    ELSE
    LET kept == SelectSeq([i \in 1..Len(keys) |-> i],
                          LAMBDA i : built[i].value # NoneV)
        appended == [j \in 1..Len(kept) |->
                        [k \in {"name"} |-> keys[kept[j]]] @@ built[kept[j]].value.d]
        done == PostProcess(fixed \o appended, meta, remote, c2)
    IN
    IF done.raised # "none" THEN Ended(done.calls, done.raised)
    ELSE Ended(done.calls, "none") @@ [value |-> done.fields]

\* the field metadata of an issue type, by key
FormFieldMeta ==
    [priority |-> [name |-> "Priority", required |-> FALSE,
                   schema |-> [type |-> "priority"],
                   allowedValues |-> <<[id |-> "1", name |-> "High"]>>],
     fixVersions |-> [name |-> "Fix Version/s", required |-> FALSE,
                      schema |-> [type |-> "array", items |-> "version"]],
     labels |-> [name |-> "Labels", required |-> FALSE,
                 schema |-> [type |-> "array", items |-> "string"]],
     issuetype |-> [name |-> "Issue Type", required |-> TRUE,
                    schema |-> [type |-> "issuetype"]],
     summary |-> [name |-> "Summary", required |-> TRUE,
                  schema |-> [type |-> "string"]],
     parent |-> [name |-> "Parent", required |-> FALSE,
                 schema |-> [type |-> "issuelink"]],
     customfield_10010 |-> [name |-> "Sprint", required |-> FALSE,
                            schema |-> [type |-> "array", items |-> "string"]],
     timetracking |-> [name |-> "Time Tracking", required |-> FALSE,
                       schema |-> [type |-> "timetracking"]]]

\* the field sets an issue type comes with
FormFieldSets ==
    {[k \in K |-> FormFieldMeta[k]] :
        K \in {{}, {"priority", "fixVersions", "labels"},
               {"issuetype", "summary", "parent", "customfield_10010"},
               {"timetracking", "priority"}}}

\* the create metadata of a project for the form: no, one or two issue
\* types, each with an id and a name
NamedIssueType(id, name, fs) == [id |-> CharsV(<<id>>), name |-> name, fields |-> fs]
FormProject(issuetypes) == [id |-> "10000", key |-> "APP", issuetypes |-> issuetypes]
FormMetas ==
    {FormProject(<<>>)} \cup
    UNION {{FormProject(<<NamedIssueType("1", "Bug", fs)>>),
            FormProject(<<NamedIssueType("1", "Bug", fs),
                          NamedIssueType("2", "Task", EmptyDict)>>),
            FormProject(<<NamedIssueType("2", "Task", EmptyDict),
                          NamedIssueType("1", "Bug", fs)>>)} :
               fs \in FormFieldSets}

\* kwargs.get('params', {}): project and issuetype given or not
FormParams ==
    {pr @@ it :
        pr \in {EmptyDict, [k \in {"project"} |-> CharsV(<<"P">>)]},
        it \in {EmptyDict} \cup
               {[k \in {"issuetype"} |-> v] :
                    v \in {CharsV(<<>>), CharsV(<<"1">>), CharsV(<<"2">>),
                           CharsV(<<"9">>)}}}

FormArgs ==
    [group : {Group},
     params : FormParams,
     remote : [get_create_meta :
                   {Fail("ApiUnauthorized"), Fail("ApiError"),
                    Ok([projects |-> <<>>])}
                       \cup {Ok([projects |-> <<m>>]) : m \in FormMetas},
               get_projects_list :
                   {Fail("ApiError"),
                    Ok(<<[id |-> "10000", key |-> "APP"],
                         [id |-> "10001", key |-> "OPS"]>>)},
               get_priorities :
                   {Fail("ApiError"), Ok(<<>>),
                    Ok(<<[id |-> "1", name |-> "High"],
                         [id |-> "2", name |-> "Low"]>>)},
               get_versions :
                   {Fail("ApiError"), Ok(<<[id |-> "7", name |-> "1.0"]>>)}]]

InitForm ==
    /\ rows = EmptyBag
    /\ config = EmptyDict
    /\ stored_config = EmptyDict
    /\ arg \in FormArgs
    /\ ret = Idle

\* the project get_create_issue_config would take its issue types from
FormMetaAvailable ==
    /\ arg.remote.get_create_meta.raised = "none"
    /\ arg.remote.get_create_meta.value.projects # <<>>
FormMeta == arg.remote.get_create_meta.value.projects[1]

GetIssueTypeMeta ==
    /\ ret = Idle
    /\ FormMetaAvailable
    /\ ret' = [op |-> "get_issue_type_meta"]
                  @@ get_issue_type_meta(DataGet(arg.params, "issuetype"), FormMeta)
    /\ UNCHANGED <<rows, config, stored_config, arg>>

GetCreateIssueConfig ==
    /\ ret = Idle
    /\ ret' = get_create_issue_config(arg.group, arg.params, arg.remote)
    /\ UNCHANGED <<rows, config, stored_config, arg>>

NextForm == GetIssueTypeMeta \/ GetCreateIssueConfig

SpecForm == InitForm /\ [][NextForm]_vars

\* the fields named issuetype of the returned form
IssueTypeFields ==
    {i \in 1..Len(ret.value) : ret.value[i]["name"] = "issuetype"}

\* C13: for a project with at least one issue type and any requested issue
\* type id, none included, get_issue_type_meta returns the issue type of
\* the requested id when the project has one and the first issue type
\* otherwise; and the issuetype field of the form get_create_issue_config
\* returns has a default that is one of its own choices.
C13_IssueTypeResolved ==
    /\ (ret.op = "get_issue_type_meta" /\ FormMeta.issuetypes # <<>>) =>
           LET issue_types == FormMeta.issuetypes
               requested == DataGet(arg.params, "issuetype")
               same == {i \in 1..Len(issue_types) : issue_types[i].id = requested}
           IN  /\ ret.raised = "none"
               /\ same # {} => ret.value.id = requested
               /\ same # {} => \E i \in same : ret.value = issue_types[i]
               /\ same = {} => ret.value = issue_types[1]
    /\ (ret.op = "get_create_issue_config" /\ ret.raised = "none") =>
           /\ Cardinality(IssueTypeFields) = 1
           /\ \A i \in IssueTypeFields :
                  \E k \in 1..Len(ret.value[i]["choices"]) :
                      ret.value[i]["choices"][k][1] = ret.value[i]["default"]

\* the form of a project with two issue types, asked for with an issue
\* type id the project does not have: the default is the first issue type
C13_Witness ==
    /\ ret.op = "get_create_issue_config"
    /\ ret.raised = "none"
    /\ DataGet(arg.params, "issuetype") = CharsV(<<"9">>)
    /\ Len(FormMeta.issuetypes) = 2
    /\ \E i \in IssueTypeFields :
           /\ ret.value[i]["default"] = FormMeta.issuetypes[1].id
           /\ Len(ret.value[i]["choices"]) = 2

(***************************************************************************)
(* Inbound predicates: should_unresolve(data), should_resolve(data)        *)
(***************************************************************************)
\* the status categories Jira reports
StatusCategories == {"new", "indeterminate", "done"}

\* what client.get_valid_statuses() can answer: a category for each status
ValidStatuses == [StatusIds -> StatusCategories]

\* the webhook payloads: data['changelog'] with its from and to status ids
Changelogs == [from : StatusIds, to : StatusIds]

_get_done_statuses(statuses) ==
    {s \in DOMAIN statuses : statuses[s] = "done"}

\* as should_resolve, but the status left is not looked at
should_resolve_ToOnly(data, statuses) ==
    LET done_statuses == _get_done_statuses(statuses)
    IN  data.changelog.to \in done_statuses

should_unresolve(data, statuses) ==
    LET done_statuses == _get_done_statuses(statuses)
        c_from == data.changelog.from
        c_to == data.changelog.to
    IN  c_from \in done_statuses /\ c_to \notin done_statuses

should_resolve(data, statuses) ==
    LET done_statuses == _get_done_statuses(statuses)
        c_from == data.changelog.from
        c_to == data.changelog.to
    IN  c_to \in done_statuses /\ c_from \notin done_statuses

NotCalled == [called |-> FALSE]

\* one evaluation of a predicate: the done set it fetched and its answer,
\* or the error of the status fetch, which is not caught
Evaluation(statuses, value) ==
    [called |-> TRUE, raised |-> "none",
     done |-> _get_done_statuses(statuses), value |-> value]
FailedEvaluation == [called |-> TRUE, raised |-> "ApiError"]

InitInbound ==
    /\ rows = EmptyBag
    /\ config = EmptyDict
    /\ stored_config = EmptyDict
    /\ arg \in [changelog : Changelogs]
    /\ ret = [op |-> "inbound", resolve |-> NotCalled, unresolve |-> NotCalled]

ShouldUnresolve ==
    /\ \/ \E statuses \in ValidStatuses :
              ret' = [ret EXCEPT !.unresolve =
                          Evaluation(statuses, should_unresolve(arg, statuses))]
       \/ ret' = [ret EXCEPT !.unresolve = FailedEvaluation]
    /\ UNCHANGED <<rows, config, stored_config, arg>>

ShouldResolve ==
    /\ \/ \E statuses \in ValidStatuses :
              ret' = [ret EXCEPT !.resolve =
                          Evaluation(statuses, should_resolve(arg, statuses))]
       \/ ret' = [ret EXCEPT !.resolve = FailedEvaluation]
    /\ UNCHANGED <<rows, config, stored_config, arg>>

NextInbound == ShouldUnresolve \/ ShouldResolve

SpecInbound == InitInbound /\ [][NextInbound]_vars

\* both predicates have answered, from the same done set
BothAnswered ==
    /\ ret.op = "inbound"
    /\ ret.resolve.called /\ ret.resolve.raised = "none"
    /\ ret.unresolve.called /\ ret.unresolve.raised = "none"
    /\ ret.resolve.done = ret.unresolve.done

\* C1: evaluated against the same done set D, should_resolve is true exactly
\* when to is in D and from is not, should_unresolve exactly when from is in
\* D and to is not; they are never both true, and both are false when from
\* and to are both in D or both outside D.
C1_ResolveUnresolveExclusive ==
    BothAnswered =>
        LET D == ret.resolve.done
            from == arg.changelog.from
            to == arg.changelog.to
        IN  /\ ret.resolve.value <=> (to \in D /\ from \notin D)
            /\ ret.unresolve.value <=> (from \in D /\ to \notin D)
            /\ ~(ret.resolve.value /\ ret.unresolve.value)
            /\ ((from \in D) <=> (to \in D)) =>
                   (~ret.resolve.value /\ ~ret.unresolve.value)

\* a changelog into a done status, answered by both predicates
C1_Witness ==
    /\ BothAnswered
    /\ ret.resolve.value
    /\ ~ret.unresolve.value
    /\ arg.changelog.from # arg.changelog.to

(***************************************************************************)
(* Properties of the configuration surface                                 *)
(***************************************************************************)
\* the rows of this organization integration
OwnRows == FilterRows(rows, OrgIntegrationId)

\* a supplied mapping has an empty resolve or unresolve target
HasEmptyTarget(d) ==
    /\ "sync_status_forward" \in DOMAIN d
    /\ \E p \in DOMAIN d["sync_status_forward"].m :
           \/ d["sync_status_forward"].m[p].on_resolve = ""
           \/ d["sync_status_forward"].m[p].on_unresolve = ""

\* C5: update_organization_config raises the validation error exactly when
\* at least one supplied per-project mapping has an empty on_resolve or an
\* empty on_unresolve.
C5_RejectsExactlyEmptyTargets ==
    ret.op = "update_organization_config" =>
        (ret.raised = "IntegrationError" <=> HasEmptyTarget(arg))

\* a rejected call that supplied one complete and one incomplete mapping
C5_Witness ==
    /\ ret.op = "update_organization_config"
    /\ ret.raised = "IntegrationError"
    /\ "sync_status_forward" \in DOMAIN arg
    /\ LET m == arg["sync_status_forward"].m
       IN  \E p, q \in DOMAIN m :
               /\ m[p].on_resolve # "" /\ m[p].on_unresolve # ""
               /\ m[q].on_resolve # "" /\ m[q].on_unresolve = ""

\* C6: a successful update_organization_config that carries
\* sync_status_forward leaves, for this organization integration, exactly
\* one row per supplied mapping and no other row; one that does not carry it
\* leaves the rows unchanged.
C6_RowsReplacedWholesale ==
    [][(ret'.op = "update_organization_config" /\ ret'.raised = "none") =>
        IF "sync_status_forward" \in DOMAIN ret'.data
        THEN LET m == ret'.data["sync_status_forward"].m
                 mine == FilterRows(rows', OrgIntegrationId)
             IN  /\ mine = {Row(OrgIntegrationId, p, m[p].on_resolve,
                                m[p].on_unresolve) : p \in DOMAIN m}
                 /\ \A r \in mine : rows'[r] = 1
                 /\ \A r1, r2 \in mine :
                        r1.external_id = r2.external_id => r1 = r2
        ELSE rows' = rows]_vars

\* an update that supplied one mapping, beside another integration's row
C6_Witness ==
    /\ ret.op = "update_organization_config"
    /\ ret.raised = "none"
    /\ "sync_status_forward" \in DOMAIN ret.data
    /\ Cardinality(DOMAIN ret.data["sync_status_forward"].m) = 1
    /\ Cardinality(OwnRows) = 1
    /\ FilterRows(rows, OtherOrgIntegrationId) # {}

\* what get_config_data returned agrees with the rows now persisted
C7_ProjectionOfRows ==
    ret.op = "get_config_data" =>
        /\ "sync_status_forward" \in DOMAIN ret.value
        /\ ret.value["sync_status_forward"].t = "map"
        /\ LET f == ret.value["sync_status_forward"].m
           IN  /\ DOMAIN f = {r.external_id : r \in OwnRows}
               /\ \A r \in OwnRows :
                      f[r.external_id] = [on_resolve |-> r.resolved_status,
                                          on_unresolve |-> r.unresolved_status]

\* an update with mapping m, directly followed by get_config_data, reads m
C7_ReadsBackUpdate ==
    (/\ ret.op = "update_organization_config"
     /\ ret.raised = "none"
     /\ "sync_status_forward" \in DOMAIN ret.data
     /\ ret'.op = "get_config_data")
        => ret'.value["sync_status_forward"] = ret.data["sync_status_forward"]

\* C7: get_config_data returns a sync_status_forward that maps each persisted
\* row's external project id to {on_resolve: resolved_status, on_unresolve:
\* unresolved_status} and has no other key, whatever the stored blob holds;
\* update_organization_config(m) followed by get_config_data yields m.
C7_ForwardRebuiltFromRows ==
    []C7_ProjectionOfRows /\ [][C7_ReadsBackUpdate]_vars

\* a read of two mappings with distinct targets while the blob holds a boolean
C7_Witness ==
    /\ ret.op = "get_config_data"
    /\ "sync_status_forward" \in DOMAIN stored_config
    /\ stored_config["sync_status_forward"] = BoolV(TRUE)
    /\ Cardinality(DOMAIN ret.value["sync_status_forward"].m) = 2
    /\ \E p \in DOMAIN ret.value["sync_status_forward"].m :
           LET e == ret.value["sync_status_forward"].m[p]
           IN  e.on_resolve # e.on_unresolve
    /\ FilterRows(rows, OtherOrgIntegrationId) # {}

\* C14: a rejected update_organization_config call deletes and creates no
\* IntegrationExternalProject row and does not modify the stored config
\* blob, also when the call carries other toggle keys.
C14_RejectedUpdateWritesNothing ==
    [][(ret'.op = "update_organization_config"
        /\ ret'.raised = "IntegrationError")
           => (rows' = rows /\ stored_config' = stored_config)]_vars

\* a rejected call that carried sync_comments, made while rows and a blob
\* without sync_comments were persisted
C14_Witness ==
    /\ ret.op = "update_organization_config"
    /\ ret.raised = "IntegrationError"
    /\ "sync_comments" \in ret.keys
    /\ OwnRows # {}
    /\ "sync_status_forward" \in DOMAIN stored_config
    /\ "sync_comments" \notin DOMAIN stored_config

\* the blob holds the boolean an update saved under sync_status_forward
ForwardSavedAsBoolean ==
    /\ "sync_status_forward" \in DOMAIN stored_config
    /\ stored_config["sync_status_forward"].t = "bool"

\* C15: once an update has set sync_status_forward, the sync_status_forward
\* entry saved in the stored config blob is a boolean that is true exactly
\* when at least one mapping row of this organization integration is
\* persisted, whatever update_organization_config and get_config_data calls
\* were made; a get_config_data call does not change what a later update
\* saves.
C15_StoredForwardIsBooleanOfRows ==
    [][(\/ ForwardSavedAsBoolean
        \/ /\ ret'.op = "update_organization_config"
           /\ ret'.raised = "none"
           /\ "sync_status_forward" \in DOMAIN ret'.data)
           => /\ ForwardSavedAsBoolean'
              /\ stored_config'["sync_status_forward"].b
                     = (FilterRows(rows', OrgIntegrationId) # {})]_vars


====
